---- MODULE Spec2Model ----
(***************************************************************************)
(* Arduino Cloud - MQTT Gateway: the property registry, the change scan of *)
(* Gateway::loop and the inbound routing of Gateway::onMsg.                *)
(*                                                                         *)
(* C strings are sequences of one-character strings, so that strcmp, atoi, *)
(* atof and std::to_string are computed character by character.  Topics    *)
(* and JSON field names are only ever compared for equality and are plain  *)
(* strings.                                                                *)
(***************************************************************************)
EXTENDS Integers, Sequences, FiniteSets, TLC

\* ------------------------------------------------------------------ text

\* the null pointer of the optional const char* members
nullptr == "nullptr"

DigitChars == <<"0", "1", "2", "3", "4", "5", "6", "7", "8", "9">>

IsDigit(c) == \E d \in 1..10 : DigitChars[d] = c

DigitVal(c) == (CHOOSE d \in 1..10 : DigitChars[d] = c) - 1

IsSpace(c) == c \in {" ", "\t", "\n", "\r"}

RECURSIVE SkipSpace(_)
SkipSpace(s) ==
    IF s # <<>> /\ IsSpace(Head(s)) THEN SkipSpace(Tail(s)) ELSE s

\* value of the longest leading run of decimal digits of s, continuing acc
RECURSIVE DigitsValue(_, _)
DigitsValue(s, acc) ==
    IF s # <<>> /\ IsDigit(Head(s))
    THEN DigitsValue(Tail(s), acc * 10 + DigitVal(Head(s)))
    ELSE acc

\* what follows the longest leading run of decimal digits of s
RECURSIVE DigitsRest(_)
DigitsRest(s) ==
    IF s # <<>> /\ IsDigit(Head(s)) THEN DigitsRest(Tail(s)) ELSE s

\* a conversion that takes nothing but a whole decimal number
atoi_WholeNumber(payload) ==
    IF payload # <<>> /\ DigitsRest(payload) = <<>> THEN DigitsValue(payload, 0) ELSE 0

\* ::atoi : leading white space, an optional sign, then decimal digits; whatever
\* follows the digits is ignored and no digits at all give 0
atoi(payload) ==
    LET t == SkipSpace(payload)
        signed == t # <<>> /\ Head(t) \in {"-", "+"}
        u == IF signed THEN Tail(t) ELSE t
        v == DigitsValue(u, 0)
    IN  IF signed /\ Head(t) = "-" THEN 0 - v ELSE v

\* std::to_string(int) of a non-negative number
RECURSIVE NatToString(_)
NatToString(n) ==
    IF n < 10 THEN <<DigitChars[n + 1]>>
    ELSE NatToString(n \div 10) \o <<DigitChars[(n % 10) + 1]>>

IntToString(n) == IF n < 0 THEN <<"-">> \o NatToString(0 - n) ELSE NatToString(n)

\* A float is [nan, c]: not-a-number, or c hundredths.  Only values with at most
\* two decimals and no exponent are written or parsed in this model.
NaN == [nan |-> TRUE, c |-> 0]

Hundredths(c) == [nan |-> FALSE, c |-> c]

\* operator != of float: a NaN differs from everything, itself included
FloatNe(a, b) == a.nan \/ b.nan \/ a.c # b.c

LowerChar(c) == IF c = "N" THEN "n" ELSE IF c = "A" THEN "a" ELSE c

\* ::atof : leading white space, an optional sign, then "nan" in any case, or
\* digits with an optional fraction; no number at all gives 0.0
atof(payload) ==
    LET t == SkipSpace(payload)
        signed == t # <<>> /\ Head(t) \in {"-", "+"}
        u == IF signed THEN Tail(t) ELSE t
        isNan == Len(u) >= 3
                 /\ <<LowerChar(u[1]), LowerChar(u[2]), LowerChar(u[3])>> = <<"n", "a", "n">>
        ip == DigitsValue(u, 0)
        r == DigitsRest(u)
        hasDigits == (u # <<>> /\ IsDigit(Head(u)))
                     \/ (Len(u) >= 2 /\ Head(u) = "." /\ IsDigit(u[2]))
        f == IF r # <<>> /\ Head(r) = "." THEN Tail(r) ELSE <<>>
        d1 == IF Len(f) >= 1 /\ IsDigit(f[1]) THEN DigitVal(f[1]) ELSE 0
        d2 == IF Len(f) >= 2 /\ IsDigit(f[1]) /\ IsDigit(f[2]) THEN DigitVal(f[2]) ELSE 0
        mag == ip * 100 + d1 * 10 + d2
    IN  IF isNan THEN NaN
        ELSE IF ~hasDigits THEN Hundredths(0)
        ELSE Hundredths(IF signed /\ Head(t) = "-" THEN 0 - mag ELSE mag)

\* std::to_string(float): "%f", six decimals
FloatToString(x) ==
    IF x.nan THEN <<"n", "a", "n">>
    ELSE LET m == IF x.c < 0 THEN 0 - x.c ELSE x.c
         IN  (IF x.c < 0 THEN <<"-">> ELSE <<>>)
             \o NatToString(m \div 100)
             \o <<".", DigitChars[((m \div 10) % 10) + 1], DigitChars[(m % 10) + 1]>>
             \o <<"0", "0", "0", "0">>

\* ------------------------------------------------------------ payloads

OnText == <<"o", "n">>

OffText == <<"o", "f", "f">>

UpperOnText == <<"O", "N">>

UpperOffText == <<"O", "F", "F">>

PrefixText == <<"4", "2", "a", "b", "c">>

NanText == <<"n", "a", "n">>

\* {"s":true,"n":7}
ObjectText ==
    <<"{", "\"", "s", "\"", ":", "t", "r", "u", "e", ",",
      "\"", "n", "\"", ":", "7", "}">>

\* {"s":"off","n":1.5}
MixedObjectText ==
    <<"{", "\"", "s", "\"", ":", "\"", "o", "f", "f", "\"", ",",
      "\"", "n", "\"", ":", "1", ".", "5", "}">>

\* {"s":   (cut short)
BrokenObjectText == <<"{", "\"", "s", "\"", ":">>

\* the payloads the transport delivers in this model
Payloads ==
    {OnText, OffText, UpperOnText, UpperOffText, PrefixText, NanText,
     ObjectText, MixedObjectText, BrokenObjectText}

\* ---------------------------------------------------------------- JSON

\* a JsonVariant: its runtime kind and its value
JsonNull == [t |-> "null"]

JsonBool(b) == [t |-> "bool", v |-> b]

JsonInt(n) == [t |-> "int", v |-> n]

JsonFloat(x) == [t |-> "float", v |-> x]

JsonString(s) == [t |-> "string", v |-> s]

\* a document with no members
EmptyDocument == [field \in {} |-> JsonNull]

\* deserializeJson(doc, payload) of the external parser, as a table over Payloads:
\* the two object texts parse to their members and every other text of Payloads,
\* none of which is a JSON text, is a DeserializationError
deserializeJson(payload) ==
    IF payload = ObjectText
    THEN [error |-> FALSE,
          doc |-> ("s" :> JsonBool(TRUE)) @@ ("n" :> JsonInt(7))]
    ELSE IF payload = MixedObjectText
    THEN [error |-> FALSE,
          doc |-> ("s" :> JsonString(OffText)) @@ ("n" :> JsonFloat(Hundredths(150)))]
    ELSE [error |-> TRUE, doc |-> EmptyDocument]

\* doc[field]: the member, or a null variant when the document has none
JsonMember(doc, field) == IF field \in DOMAIN doc THEN doc[field] ELSE JsonNull

\* JsonVariant::is<T>()
JsonIsBool(v) == v.t = "bool"

JsonIsInt(v) == v.t = "int"

JsonIsFloat(v) == v.t \in {"int", "float"}

JsonIsString(v) == v.t = "string"

\* JsonVariant::as<float>() of a number
JsonAsFloat(v) == IF v.t = "int" THEN Hundredths(v.v * 100) ELSE v.v

\* ---------------------------------------------------------- properties

\* the configuration a Property holds after setup(): its class, the three
\* optional strings of Property and the four literals of BoolProperty
Property(kind, state_topic, command_topic, state_json_field) ==
    [kind |-> kind,
     state_topic |-> state_topic,
     command_topic |-> command_topic,
     state_json_field |-> state_json_field,
     state_on |-> OnText, state_off |-> OffText,
     cmd_on |-> OnText, cmd_off |-> OffText]

\* BoolProperty::setStatePayload
setStatePayload(p, on, off) == [p EXCEPT !.state_on = on, !.state_off = off]

\* BoolProperty::setCommandPayload
setCommandPayload(p, on, off) == [p EXCEPT !.cmd_on = on, !.cmd_off = off]

\* the value a zero-initialised backing variable of each class holds
ZeroValue(kind) ==
    CASE kind = "Bool" -> FALSE
      [] kind = "Int" -> 0
      [] kind = "Float" -> Hundredths(0)
      [] kind = "String" -> <<>>

\* the values the application or the cloud writes to a backing variable
WriteValues(kind) ==
    CASE kind = "Bool" -> {FALSE, TRUE}
      [] kind = "Int" -> {0, 42}
      [] kind = "Float" -> {Hundredths(0), Hundredths(150), NaN}
      [] kind = "String" -> {<<>>, OnText}

\* _last_seen_value of a new property: the String member is default-constructed
\* empty; the bool, int and float members are left uninitialised, so a new
\* property holds whatever the memory held: a value equal to the zero of the
\* backing variable or (other) a value different from it
InitialLastSeenValue(kind, other) ==
    CASE kind = "Bool" -> other
      [] kind = "Int" -> IF other THEN 42 ELSE 0
      [] kind = "Float" -> IF other THEN Hundredths(150) ELSE Hundredths(0)
      [] kind = "String" -> <<>>

\* ------------------------------------------------- the four classes

\* the state of one property: the backing variable *_var, _last_seen_value and
\* _last_seen
PropertyState(v, lsv, ls) == [var |-> v, last_seen_value |-> lsv, last_seen |-> ls]

\* updateLastSeen() that copies the value and leaves _last_seen alone
updateLastSeen_ValueOnly(ps, t) == [ps EXCEPT !.last_seen_value = ps.var]

\* updateLastSeen() of the four classes, millis() reading t
updateLastSeen(ps, t) == [ps EXCEPT !.last_seen_value = ps.var, !.last_seen = t]

\* hasChanged() of the four classes: operator != of the backing type
hasChanged(p, ps) ==
    IF p.kind = "Float" THEN FloatNe(ps.last_seen_value, ps.var)
    ELSE ps.last_seen_value # ps.var

\* getCommandPayload() with the two command literals of BoolProperty exchanged
getCommandPayload_Swapped(p, ps) ==
    CASE p.kind = "Bool" -> IF ps.var THEN p.cmd_off ELSE p.cmd_on
      [] p.kind = "Int" -> IntToString(ps.var)
      [] p.kind = "Float" -> FloatToString(ps.var)
      [] p.kind = "String" -> ps.var

\* getCommandPayload() of the four classes
getCommandPayload(p, ps) ==
    CASE p.kind = "Bool" -> IF ps.var THEN p.cmd_on ELSE p.cmd_off
      [] p.kind = "Int" -> IntToString(ps.var)
      [] p.kind = "Float" -> FloatToString(ps.var)
      [] p.kind = "String" -> ps.var

\* BoolProperty::updateFromMQTT taking every payload but the state-on literal
\* for the state-off literal
BoolUpdateFromMQTT_ElseOff(p, ps, payload, t) ==
    updateLastSeen([ps EXCEPT !.var = (payload = p.state_on)], t)

BoolUpdateFromMQTT(p, ps, payload, t) ==
    IF payload = p.state_on THEN updateLastSeen([ps EXCEPT !.var = TRUE], t)
    ELSE IF payload = p.state_off THEN updateLastSeen([ps EXCEPT !.var = FALSE], t)
    ELSE ps

BoolUpdateFromMQTT_JSON(p, ps, v, t) ==
    IF JsonIsBool(v) THEN updateLastSeen([ps EXCEPT !.var = v.v], t)
    ELSE IF JsonIsString(v) THEN BoolUpdateFromMQTT(p, ps, v.v, t)
    ELSE ps

IntUpdateFromMQTT(p, ps, payload, t) ==
    updateLastSeen([ps EXCEPT !.var = atoi(payload)], t)

\* IntProperty::updateFromMQTT_JSON without its is<int>() test: as<int>() of a
\* value that is no integer gives 0
IntUpdateFromMQTT_JSON_Unchecked(p, ps, v, t) ==
    updateLastSeen([ps EXCEPT !.var = IF v.t = "int" THEN v.v ELSE 0], t)

IntUpdateFromMQTT_JSON(p, ps, v, t) ==
    IF JsonIsInt(v) THEN updateLastSeen([ps EXCEPT !.var = v.v], t) ELSE ps

FloatUpdateFromMQTT(p, ps, payload, t) ==
    updateLastSeen([ps EXCEPT !.var = atof(payload)], t)

FloatUpdateFromMQTT_JSON(p, ps, v, t) ==
    IF JsonIsFloat(v) THEN updateLastSeen([ps EXCEPT !.var = JsonAsFloat(v)], t) ELSE ps

StringUpdateFromMQTT(p, ps, payload, t) ==
    updateLastSeen([ps EXCEPT !.var = payload], t)

StringUpdateFromMQTT_JSON(p, ps, v, t) ==
    IF JsonIsString(v) THEN updateLastSeen([ps EXCEPT !.var = v.v], t) ELSE ps

\* the virtual call p->updateFromMQTT(payload)
updateFromMQTT(p, ps, payload, t) ==
    CASE p.kind = "Bool" -> BoolUpdateFromMQTT(p, ps, payload, t)
      [] p.kind = "Int" -> IntUpdateFromMQTT(p, ps, payload, t)
      [] p.kind = "Float" -> FloatUpdateFromMQTT(p, ps, payload, t)
      [] p.kind = "String" -> StringUpdateFromMQTT(p, ps, payload, t)

\* the virtual call p->updateFromMQTT_JSON(doc[field])
updateFromMQTT_JSON(p, ps, v, t) ==
    CASE p.kind = "Bool" -> BoolUpdateFromMQTT_JSON(p, ps, v, t)
      [] p.kind = "Int" -> IntUpdateFromMQTT_JSON(p, ps, v, t)
      [] p.kind = "Float" -> FloatUpdateFromMQTT_JSON(p, ps, v, t)
      [] p.kind = "String" -> StringUpdateFromMQTT_JSON(p, ps, v, t)

\* ------------------------------------------------------------ gateway

IGNORE_STATES_FOR == 500

\* millis() is an unsigned long; the clock of this model is ClockModulus wide
ClockModulus == 65536

\* the difference millis() - _last_seen taken in signed arithmetic
Elapsed_Signed(t, last_seen) == t - last_seen

\* the unsigned difference millis() - _last_seen
Elapsed(t, last_seen) == (t - last_seen) % ClockModulus

\* onMsg without its debounce test
Debounced_Never(t, last_seen) == FALSE

\* the debounce test of onMsg
Debounced(t, last_seen) == Elapsed(t, last_seen) < IGNORE_STATES_FOR

\* the instants at which the clock is read in this model
Instants == {0, 1, 100, 600}

\* how many inbound messages one call of the transport's loop() hands to onMsg
MaxMsgsPerTick == 1

\* the longest registry of this model
MaxProperties == 2

\* the registries setup() builds in this model, in registration order

\* the relay of examples/BasicGateway: both topics, the default literals
RelayRegistry ==
    <<setCommandPayload(
          setStatePayload(Property("Bool", "relay", "relay/command", nullptr),
                          OnText, OffText),
          OnText, OffText)>>

\* a float with both topics
SetpointRegistry == <<Property("Float", "setpoint", "setpoint/set", nullptr)>>

\* a plain property and a structured one on the same state topic
SharedRegistry ==
    <<Property("Int", "status", nullptr, nullptr),
      Property("Bool", "status", "status/set", "s")>>

\* a structured property registered before a plain one on the same state topic
SharedIntRegistry ==
    <<Property("Int", "count", "count/set", "n"),
      Property("Int", "count", nullptr, nullptr)>>

\* a command-only text registered before a relay with its own literals
CommandOnlyRegistry ==
    <<Property("String", nullptr, "display/set", nullptr),
      setCommandPayload(
          setStatePayload(Property("Bool", "plug", "plug/set", nullptr),
                          UpperOnText, UpperOffText),
          UpperOnText, UpperOffText)>>

\* a text with both topics
TextRegistry == <<Property("String", "text", "text/set", nullptr)>>

Registries ==
    {RelayRegistry, SetpointRegistry, TextRegistry, SharedRegistry,
     SharedIntRegistry, CommandOnlyRegistry}

VARIABLES
    properties,       \* Gateway::_properties, fixed by setup()
    var,              \* the backing variables, by registry index
    last_seen_value,  \* _last_seen_value, by registry index
    last_seen,        \* Property::_last_seen, by registry index
    started,          \* Gateway::_started
    now,              \* millis()
    pc,               \* "idle" between calls of loop(), "transport" inside
                      \* _mqtt_client->loop(), "halted" once the sketch stopped
    delivered,        \* messages handed to onMsg in this call of loop()
    published,        \* what the last change scan handed to publish()
    event,            \* the last step taken and its inputs
    lastWrite,        \* who wrote each backing variable last, and when
    pending           \* an application write waits for its command

vars ==
    <<properties, var, last_seen_value, last_seen, started, now, pc, delivered,
      published, event, lastWrite, pending>>

Indices == 1..Len(properties)

StateOf(i) == PropertyState(var[i], last_seen_value[i], last_seen[i])

Event(op, topic, payload, applied) ==
    [op |-> op, topic |-> topic, payload |-> payload, applied |-> applied]

\* lastWrite: nobody wrote yet; the application wrote at `at`; the application
\* wrote IGNORE_STATES_FOR or more ago; onMsg wrote
NoWrite == [by |-> "none", at |-> 0]

OldWrite == [by |-> "old", at |-> 0]

DeviceWrite == [by |-> "device", at |-> 0]

\* the state setup() leaves behind, the registry being registries' choice
Setup(registries) ==
    /\ properties \in registries
    /\ var = [i \in Indices |-> ZeroValue(properties[i].kind)]
    /\ \E other \in [1..MaxProperties -> BOOLEAN] :
           last_seen_value =
               [i \in Indices |-> InitialLastSeenValue(properties[i].kind, other[i])]
    /\ last_seen = [i \in Indices |-> 0]
    /\ started = FALSE
    /\ now = 0
    /\ pc = "idle"
    /\ delivered = 0
    /\ published = <<>>
    /\ event = Event("setup", "", <<>>, {})
    /\ lastWrite = [i \in Indices |-> NoWrite]
    /\ pending = [i \in Indices |-> FALSE]

Init == Setup(Registries)

\* the application or the cloud (ArduinoCloud.update()) writes a backing
\* variable between two calls of Gateway::loop
AppWrite(i, v) ==
    /\ pc = "idle"
    /\ var' = [var EXCEPT ![i] = v]
    /\ lastWrite' = [lastWrite EXCEPT ![i] = [by |-> "app", at |-> now]]
    /\ pending' = [pending EXCEPT ![i] =
                      /\ properties[i].command_topic # nullptr
                      /\ hasChanged(properties[i],
                                    PropertyState(v, last_seen_value[i], last_seen[i]))]
    /\ event' = Event("write", "", <<>>, {})
    /\ UNCHANGED <<properties, last_seen_value, last_seen, started,
                   now, pc, delivered, published>>

\* time passes between two calls of Gateway::loop
Advance(t) ==
    /\ pc = "idle"
    /\ t > now
    /\ now' = t
    /\ lastWrite' = [i \in Indices |->
                        IF lastWrite[i].by = "app"
                           /\ t - lastWrite[i].at >= IGNORE_STATES_FOR
                        THEN OldWrite ELSE lastWrite[i]]
    /\ event' = Event("advance", "", <<>>, {})
    /\ UNCHANGED <<properties, var, last_seen_value, last_seen, started, pc,
                   delivered, published, pending>>

\* Gateway::loop testing the connection on every call, and going back to
\* waiting when it is lost
LoopBegin_Reconnects(connection, mdns) ==
    /\ pc = "idle"
    /\ IF connection # "CONNECTED"
       THEN /\ event' = Event("wait", "", <<>>, {})
            /\ started' = FALSE
            /\ UNCHANGED pc
       ELSE IF ~started /\ ~mdns
       THEN /\ event' = Event("halt", "", <<>>, {})
            /\ pc' = "halted"
            /\ UNCHANGED started
       ELSE /\ event' = Event(IF started THEN "loop" ELSE "start", "", <<>>, {})
            /\ started' = TRUE
            /\ pc' = "transport"
    /\ delivered' = 0
    /\ published' = <<>>
    /\ UNCHANGED <<properties, var, last_seen_value, last_seen, now, lastWrite,
                   pending>>

\* Gateway::loop going on with the bring-up when MDNS.begin fails
LoopBegin_IgnoresMdns(connection, mdns) ==
    /\ pc = "idle"
    /\ IF ~started /\ connection # "CONNECTED"
       THEN /\ event' = Event("wait", "", <<>>, {})
            /\ UNCHANGED <<started, pc>>
       ELSE /\ event' = Event(IF started THEN "loop" ELSE "start", "", <<>>, {})
            /\ started' = TRUE
            /\ pc' = "transport"
    /\ delivered' = 0
    /\ published' = <<>>
    /\ UNCHANGED <<properties, var, last_seen_value, last_seen, now, lastWrite,
                   pending>>

\* Gateway::loop up to the transport's loop(): the bring-up on the first call
\* that finds the connection (check() returning connection), MDNS.begin
\* succeeding (mdns) or not
LoopBegin(connection, mdns) ==
    /\ pc = "idle"
    /\ IF ~started /\ connection # "CONNECTED"
       THEN /\ event' = Event("wait", "", <<>>, {})
            /\ UNCHANGED <<started, pc>>
       ELSE IF ~started /\ ~mdns
       THEN /\ event' = Event("halt", "", <<>>, {})
            /\ pc' = "halted"
            /\ UNCHANGED started
       ELSE /\ event' = Event(IF started THEN "loop" ELSE "start", "", <<>>, {})
            /\ started' = TRUE
            /\ pc' = "transport"
    /\ delivered' = 0
    /\ published' = <<>>
    /\ UNCHANGED <<properties, var, last_seen_value, last_seen, now, lastWrite,
                   pending>>

\* onMsg leaving its loop at the first parse failure (return for continue)
RECURSIVE onMsgLoop_ReturnsOnError(_, _, _, _, _, _)
onMsgLoop_ReturnsOnError(i, st, topic, payload, t, null) ==
    IF i > Len(properties) \/ st.crashed THEN st
    ELSE
      LET p == properties[i]
          parse == ~st.deserializedJSON /\ ~st.deserializionFailed
          r == deserializeJson(payload)
          s1 == IF parse
                THEN [st EXCEPT !.deserializedJSON = TRUE,
                                !.deserializionFailed = r.error,
                                !.doc = r.doc,
                                !.parses = st.parses + 1]
                ELSE st
      IN  IF p.state_topic = nullptr
          THEN IF null = "crash" THEN [st EXCEPT !.crashed = TRUE]
               ELSE onMsgLoop_ReturnsOnError(i + 1, st, topic, payload, t, null)
          ELSE IF topic # p.state_topic
          THEN onMsgLoop_ReturnsOnError(i + 1, st, topic, payload, t, null)
          ELSE IF Debounced(t, st.ps[i].last_seen)
          THEN onMsgLoop_ReturnsOnError(i + 1, st, topic, payload, t, null)
          ELSE IF p.state_json_field # nullptr
          THEN IF s1.deserializionFailed
               THEN s1
               ELSE onMsgLoop_ReturnsOnError(
                        i + 1,
                        [s1 EXCEPT !.ps[i] =
                            updateFromMQTT_JSON(
                                p, s1.ps[i], JsonMember(s1.doc, p.state_json_field), t)],
                        topic, payload, t, null)
          ELSE onMsgLoop_ReturnsOnError(
                   i + 1,
                   [st EXCEPT !.ps[i] = updateFromMQTT(p, st.ps[i], payload, t)],
                   topic, payload, t, null)

\* the loop of onMsg from property i on, over st = [ps, deserializedJSON,
\* deserializionFailed, doc, crashed, parses], parses counting the calls of
\* deserializeJson; strcmp against a null _state_topic is
\* undefined: null is "mismatch" (the read finds other bytes) or "crash" (the
\* read faults and the sketch stops)
RECURSIVE onMsgLoop(_, _, _, _, _, _)
onMsgLoop(i, st, topic, payload, t, null) ==
    IF i > Len(properties) \/ st.crashed THEN st
    ELSE
      LET p == properties[i]
          parse == ~st.deserializedJSON /\ ~st.deserializionFailed
          r == deserializeJson(payload)
          s1 == IF parse
                THEN [st EXCEPT !.deserializedJSON = TRUE,
                                !.deserializionFailed = r.error,
                                !.doc = r.doc,
                                !.parses = st.parses + 1]
                ELSE st
      IN  IF p.state_topic = nullptr
          THEN IF null = "crash" THEN [st EXCEPT !.crashed = TRUE]
               ELSE onMsgLoop(i + 1, st, topic, payload, t, null)
          ELSE IF topic # p.state_topic
          THEN onMsgLoop(i + 1, st, topic, payload, t, null)
          ELSE IF Debounced(t, st.ps[i].last_seen)
          THEN onMsgLoop(i + 1, st, topic, payload, t, null)
          ELSE IF p.state_json_field # nullptr
          THEN IF s1.deserializionFailed
               THEN onMsgLoop(i + 1, s1, topic, payload, t, null)
               ELSE onMsgLoop(
                        i + 1,
                        [s1 EXCEPT !.ps[i] =
                            updateFromMQTT_JSON(
                                p, s1.ps[i], JsonMember(s1.doc, p.state_json_field), t)],
                        topic, payload, t, null)
          ELSE onMsgLoop(
                   i + 1,
                   [st EXCEPT !.ps[i] = updateFromMQTT(p, st.ps[i], payload, t)],
                   topic, payload, t, null)

\* Gateway::onMsg on the states ps of the registry
onMsg(ps, topic, payload, t, null) ==
    onMsgLoop(1,
              [ps |-> ps, deserializedJSON |-> FALSE, deserializionFailed |-> FALSE,
               doc |-> EmptyDocument, crashed |-> FALSE, parses |-> 0],
              topic, payload, t, null)

\* the topics the transport delivers: every state topic of the registry and one
\* that no property listens to
InboundTopics ==
    ({properties[i].state_topic : i \in Indices} \ {nullptr}) \cup {"other"}

\* the transport's loop() calls back Gateway::onMsg with one inbound message
OnMsg(topic, payload, null) ==
    /\ pc = "transport"
    /\ delivered < MaxMsgsPerTick
    /\ LET r == onMsg([i \in Indices |-> StateOf(i)], topic, payload, now, null)
           applied == {i \in Indices : r.ps[i].last_seen # last_seen[i]}
       IN  /\ var' = [i \in Indices |-> r.ps[i].var]
           /\ last_seen_value' = [i \in Indices |-> r.ps[i].last_seen_value]
           /\ last_seen' = [i \in Indices |-> r.ps[i].last_seen]
           /\ pc' = IF r.crashed THEN "halted" ELSE "transport"
           /\ event' = Event(IF r.crashed THEN "crash" ELSE "onMsg", topic,
                             payload, applied)
           /\ lastWrite' = [i \in Indices |->
                               IF i \in applied THEN DeviceWrite
                               ELSE lastWrite[i]]
    /\ delivered' = delivered + 1
    /\ UNCHANGED <<properties, started, now, published, pending>>

\* a change scan that calls updateLastSeen() on every property, changed or not
RECURSIVE scanLoop_RefreshesAll(_, _, _)
scanLoop_RefreshesAll(i, st, t) ==
    IF i > Len(properties) THEN st
    ELSE
      LET p == properties[i]
          message == [property |-> i, topic |-> p.command_topic,
                      payload |-> getCommandPayload(p, st.ps[i])]
      IN  scanLoop_RefreshesAll(
              i + 1,
              [ps |-> [st.ps EXCEPT ![i] = updateLastSeen(st.ps[i], t)],
               out |-> IF hasChanged(p, st.ps[i]) /\ p.command_topic # nullptr
                       THEN Append(st.out, message) ELSE st.out],
              t)

\* the change scan of Gateway::loop from property i on, over st = [ps, out]
RECURSIVE scanLoop(_, _, _)
scanLoop(i, st, t) ==
    IF i > Len(properties) THEN st
    ELSE
      LET p == properties[i]
          message == [property |-> i, topic |-> p.command_topic,
                      payload |-> getCommandPayload(p, st.ps[i])]
      IN  IF hasChanged(p, st.ps[i])
          THEN scanLoop(
                   i + 1,
                   [ps |-> [st.ps EXCEPT ![i] = updateLastSeen(st.ps[i], t)],
                    out |-> IF p.command_topic # nullptr
                            THEN Append(st.out, message) ELSE st.out],
                   t)
          ELSE scanLoop(i + 1, st, t)

\* Gateway::loop after the transport's loop(): the change scan
LoopScan ==
    /\ pc = "transport"
    /\ LET r == scanLoop(1, [ps |-> [i \in Indices |-> StateOf(i)], out |-> <<>>], now)
           sent == {r.out[k].property : k \in 1..Len(r.out)}
       IN  /\ last_seen_value' = [i \in Indices |-> r.ps[i].last_seen_value]
           /\ last_seen' = [i \in Indices |-> r.ps[i].last_seen]
           /\ published' = r.out
           /\ pending' = [i \in Indices |->
                             IF i \in sent /\ lastWrite[i].by \in {"app", "old"} THEN FALSE
                             ELSE pending[i]]
           /\ event' = Event("scan", "", <<>>,
                             {i \in Indices : hasChanged(properties[i], StateOf(i))})
    /\ pc' = "idle"
    /\ UNCHANGED <<properties, var, started, now, delivered, lastWrite>>

Next ==
    \/ \E i \in Indices : \E v \in WriteValues(properties[i].kind) : AppWrite(i, v)
    \/ \E t \in Instants : Advance(t)
    \/ \E connection \in {"CONNECTED", "DISCONNECTED"} : \E mdns \in BOOLEAN :
           LoopBegin(connection, mdns)
    \/ \E topic \in InboundTopics : \E payload \in Payloads :
           \E null \in {"mismatch", "crash"} : OnMsg(topic, payload, null)
    \/ LoopScan

Spec == Init /\ [][Next]_vars

\* loop() is called again and again by the sketch's loop(), and a call that
\* entered the transport's loop() goes on to the change scan
FairSpec ==
    /\ Spec
    /\ WF_vars(\E connection \in {"CONNECTED", "DISCONNECTED"} :
                   \E mdns \in BOOLEAN : LoopBegin(connection, mdns))
    /\ WF_vars(LoopScan)

\* --------------------------------------------------------------- claims

\* this step is a call of onMsg (one that returns or one that faults)
MessageStep == pc = "transport" /\ delivered' = delivered + 1

\* this step is the change scan
ScanStep == pc = "transport" /\ pc' = "idle"

Unchanged(i) ==
    /\ var'[i] = var[i]
    /\ last_seen_value'[i] = last_seen_value[i]
    /\ last_seen'[i] = last_seen[i]

\* what routing one message to property p alone does to its state ps: the named
\* member of the parsed document for a structured property, the raw payload
\* for a plain one
DecodeRule(p, ps, payload, t) ==
    IF p.state_json_field # nullptr
    THEN LET r == deserializeJson(payload)
         IN  IF r.error THEN ps
             ELSE updateFromMQTT_JSON(p, ps, JsonMember(r.doc, p.state_json_field), t)
    ELSE updateFromMQTT(p, ps, payload, t)

StateAfter(i) == PropertyState(var'[i], last_seen_value'[i], last_seen'[i])

PublishedFor(i) == {k \in 1..Len(published) : published[k].property = i}

\* C1 Debounce correctness: a message on P's state topic routed less than
\* IGNORE_STATES_FOR after the application wrote P's backing variable does not
\* change the backing variable.
C1_WriteWinsInsideWindow ==
    [][\A i \in Indices :
           (/\ MessageStep
            /\ event'.topic = properties[i].state_topic
            /\ lastWrite[i].by = "app"
            /\ now - lastWrite[i].at < IGNORE_STATES_FOR)
           => var'[i] = var[i]]_vars

\* C2 No lost writes: once the gateway runs, a write that left the backing
\* variable of a property with a command topic different from its
\* _last_seen_value is eventually published (or the sketch has stopped).
C2_WriteEventuallyPublished ==
    \A i \in 1..MaxProperties :
        (i \in Indices /\ started /\ pending[i])
            ~> ((i \in Indices /\ ~pending[i]) \/ pc = "halted")

\* C3 No feedback loop: right after onMsg applied a payload to P, hasChanged()
\* of P is false, and a change scan publishes nothing for a property whose
\* backing variable was last written by onMsg.
C3_NoFeedbackLoop ==
    \A i \in Indices :
        /\ (event.op \in {"onMsg", "crash"} /\ i \in event.applied)
               => ~hasChanged(properties[i], StateOf(i))
        /\ (event.op = "scan" /\ lastWrite[i] = DeviceWrite) => PublishedFor(i) = {}

\* C4 Debounce gate: a message on P's state topic routed at now leaves P
\* untouched when now - _last_seen < IGNORE_STATES_FOR and is decoded and
\* applied by P's own rule otherwise.
C4_GateAgainstLastSeen ==
    [][\A i \in Indices :
           (MessageStep /\ event'.topic = properties[i].state_topic)
           => IF Elapsed(now, last_seen[i]) < IGNORE_STATES_FOR
              THEN Unchanged(i)
              ELSE StateAfter(i)
                       = DecodeRule(properties[i], StateOf(i), event'.payload, now)]_vars

\* C4 on the calls of onMsg that return
C4_GateWhenReturned ==
    [][\A i \in Indices :
           (MessageStep /\ event'.op = "onMsg"
            /\ event'.topic = properties[i].state_topic)
           => IF Elapsed(now, last_seen[i]) < IGNORE_STATES_FOR
              THEN Unchanged(i)
              ELSE StateAfter(i)
                       = DecodeRule(properties[i], StateOf(i), event'.payload, now)]_vars

\* C5 Change detection idempotence: after a change scan that found P changed
\* and published its command, hasChanged() of P is false.
C5_ScanIdempotent ==
    \A i \in Indices :
        (event.op = "scan" /\ i \in event.applied /\ PublishedFor(i) # {})
            => ~hasChanged(properties[i], StateOf(i))

\* the messages of the scan, in registration order, for the properties from i on
RECURSIVE ExpectedCommands(_)
ExpectedCommands(i) ==
    IF i > Len(properties) THEN <<>>
    ELSE (IF hasChanged(properties[i], StateOf(i))
             /\ properties[i].command_topic # nullptr
          THEN <<[property |-> i, topic |-> properties[i].command_topic,
                  payload |-> getCommandPayload(properties[i], StateOf(i))]>>
          ELSE <<>>)
         \o ExpectedCommands(i + 1)

\* what the scan does to each property and what it hands to publish()
ScanEffects ==
    /\ published' = ExpectedCommands(1)
    /\ \A i \in Indices :
           /\ var'[i] = var[i]
           /\ IF hasChanged(properties[i], StateOf(i))
              THEN last_seen_value'[i] = var[i] /\ last_seen'[i] = now
              ELSE last_seen_value'[i] = last_seen_value[i]
                   /\ last_seen'[i] = last_seen[i]

\* C6 Tick scan: the scan publishes, in registration order, one command with
\* getCommandPayload() for each changed property that has a command topic and
\* nothing else, refreshes _last_seen_value and _last_seen of the changed
\* properties alone, and leaves no property changed for the next scan.
C6_TickScan ==
    [][ScanStep
       => /\ ScanEffects
          /\ \A i \in Indices : ~hasChanged(properties[i], StateAfter(i))]_vars

\* C6 without its last clause
C6_ScanEffectsAlone == [][ScanStep => ScanEffects]_vars

\* what one message does to every property that listens to its topic outside
\* its debounce window, and to every other property
RoutedIndependently ==
    \A i \in Indices :
        IF event'.topic = properties[i].state_topic
           /\ ~(Elapsed(now, last_seen[i]) < IGNORE_STATES_FOR)
        THEN StateAfter(i)
                 = DecodeRule(properties[i], StateOf(i), event'.payload, now)
        ELSE Unchanged(i)

\* C7 Multi-match routing: one inbound message updates every property whose
\* state topic equals its topic and which is outside its debounce window, each
\* by its own rule and whatever the others did with it.
C7_MultiMatchRouting == [][MessageStep => RoutedIndependently]_vars

\* C7 on the calls of onMsg that return
C7_MultiMatchWhenReturned ==
    [][(MessageStep /\ event'.op = "onMsg") => RoutedIndependently]_vars

\* C8 No state topic: inbound routing never changes a property that has no
\* state topic, and goes on to route the message to the other properties.
C8_NoStateTopicSkipped ==
    [][MessageStep
       => /\ \A i \in Indices : properties[i].state_topic = nullptr => Unchanged(i)
          /\ pc' = "transport"
          /\ RoutedIndependently]_vars

\* C9 Bool unknown literal: a plain payload that is neither the state-on nor
\* the state-off literal leaves a plain Bool property's backing variable,
\* _last_seen_value and _last_seen as they were.
C9_UnknownLiteralIgnored ==
    [][\A i \in Indices :
           (/\ MessageStep
            /\ properties[i].kind = "Bool"
            /\ properties[i].state_json_field = nullptr
            /\ event'.payload \notin {properties[i].state_on, properties[i].state_off})
           => Unchanged(i)]_vars

\* C9 witness: an unknown literal was routed to a plain Bool property on its
\* state topic, outside the debounce window
C9_Witness ==
    \E i \in Indices :
        /\ event.op = "onMsg"
        /\ properties[i].kind = "Bool"
        /\ properties[i].state_json_field = nullptr
        /\ event.topic = properties[i].state_topic
        /\ event.payload \notin {properties[i].state_on, properties[i].state_off}
        /\ ~Debounced(now, last_seen[i])

\* ------------------------------------------- Bool literals, round trip

\* the literals setStatePayload and setCommandPayload are given in this model
Literals == {OnText, OffText, UpperOnText}

\* a relay configured with any two pairs of literals
LiteralRegistries ==
    {<<setCommandPayload(
           setStatePayload(Property("Bool", "relay", "relay/command", nullptr),
                           state_on, state_off),
           cmd_on, cmd_off)>> :
        <<state_on, state_off, cmd_on, cmd_off>>
            \in Literals \X Literals \X Literals \X Literals}

\* updateFromMQTT(payload) of the relay
Decode(payload) ==
    /\ event.op # "decode"
    /\ LET ps == updateFromMQTT(properties[1], StateOf(1), payload, now)
       IN  /\ var' = [var EXCEPT ![1] = ps.var]
           /\ last_seen_value' = [last_seen_value EXCEPT ![1] = ps.last_seen_value]
           /\ last_seen' = [last_seen EXCEPT ![1] = ps.last_seen]
    /\ event' = Event("decode", properties[1].state_topic, payload, {})
    /\ published' = <<>>
    /\ UNCHANGED <<properties, started, now, pc, delivered, lastWrite, pending>>

\* getCommandPayload() of the relay, after a decode
Encode ==
    /\ event.op = "decode"
    /\ published' = <<[property |-> 1, topic |-> properties[1].command_topic,
                       payload |-> getCommandPayload(properties[1], StateOf(1))]>>
    /\ event' = Event("encode", event.topic, event.payload, {})
    /\ UNCHANGED <<properties, var, last_seen_value, last_seen, started, now, pc,
                   delivered, lastWrite, pending>>

RoundTripNext == (\E payload \in Payloads : Decode(payload)) \/ Encode

RoundTripSpec == Setup(LiteralRegistries) /\ [][RoundTripNext]_vars

\* C10 Bool round trip, as claimed: for any two pairs of literals, the state-on
\* literal decoded and encoded gives the command-on literal and the state-off
\* literal decoded and encoded gives the command-off literal.
C10_RoundTripAnyLiterals ==
    event.op = "encode"
    => /\ event.payload = properties[1].state_on
              => published[1].payload = properties[1].cmd_on
       /\ event.payload = properties[1].state_off
              => published[1].payload = properties[1].cmd_off

\* C10 Bool round trip, amended: the same when the state-on and the state-off
\* literal differ.
C10_RoundTripDistinctLiterals ==
    (event.op = "encode" /\ properties[1].state_on # properties[1].state_off)
    => /\ event.payload = properties[1].state_on
              => published[1].payload = properties[1].cmd_on
       /\ event.payload = properties[1].state_off
              => published[1].payload = properties[1].cmd_off

\* C10 witness: with four literals that differ where they can, the state-off
\* literal came back as the command-off literal
C10_Witness ==
    /\ event.op = "encode"
    /\ properties[1].state_on # properties[1].state_off
    /\ properties[1].cmd_on # properties[1].cmd_off
    /\ properties[1].state_off # properties[1].cmd_off
    /\ event.payload = properties[1].state_off
    /\ published[1].payload = properties[1].cmd_off

\* ------------------------------------------------- structured payloads

\* the members a structured property names in this model: "s" and "n" are
\* members of the two object texts, "x" is a member of neither
JsonFields == {"s", "n", "x"}

\* two structured properties on one state topic
JsonPairRegistry ==
    <<Property("Bool", "doc", nullptr, "s"), Property("Int", "doc", nullptr, "n")>>

\* one structured property of each class on each member, and the registries
\* in which structured properties share a state topic
StructuredRegistries ==
    {<<Property(kind, "doc", nullptr, field)>> :
         <<kind, field>> \in {"Bool", "Int", "Float", "String"} \X JsonFields}
    \cup {SharedRegistry, SharedIntRegistry, JsonPairRegistry}

StructuredSpec == Setup(StructuredRegistries) /\ [][Next]_vars

\* the member a returning call of onMsg hands to updateFromMQTT_JSON of
\* property i
MemberFor(i, payload) ==
    JsonMember(deserializeJson(payload).doc, properties[i].state_json_field)

\* this step is a call of onMsg that returns and hands property i a member of
\* the parsed payload
StructuredStep(i) ==
    /\ MessageStep
    /\ event'.op = "onMsg"
    /\ properties[i].state_json_field # nullptr
    /\ event'.topic = properties[i].state_topic
    /\ ~(Elapsed(now, last_seen[i]) < IGNORE_STATES_FOR)
    /\ ~deserializeJson(event'.payload).error

\* the runtime kinds that are not of the class: as claimed, and with a string
\* not counted as foreign to a Bool
ForeignKinds(kind) ==
    CASE kind = "Bool" -> {"null", "int", "float", "string"}
      [] kind = "Int" -> {"null", "bool", "float", "string"}
      [] kind = "Float" -> {"null", "bool", "string"}
      [] kind = "String" -> {"null", "bool", "int", "float"}

ForeignKindsButString(kind) ==
    IF kind = "Bool" THEN {"null", "int", "float"} ELSE ForeignKinds(kind)

\* C11 Structured decode type check, as claimed: a member whose runtime kind is
\* not that of the class (a missing member included) leaves the backing
\* variable, _last_seen_value and _last_seen as they were.
C11_ForeignKindIgnored ==
    [][\A i \in Indices :
           (/\ StructuredStep(i)
            /\ MemberFor(i, event'.payload).t \in ForeignKinds(properties[i].kind))
           => Unchanged(i)]_vars

\* C11 Structured decode type check, amended: the same, a string handed to a
\* Bool property excepted.
C11_ForeignKindButStringIgnored ==
    [][\A i \in Indices :
           (/\ StructuredStep(i)
            /\ MemberFor(i, event'.payload).t
                   \in ForeignKindsButString(properties[i].kind))
           => Unchanged(i)]_vars

\* C11 witness: a returning call of onMsg handed a Float property a bool,
\* outside its debounce window
C11_Witness ==
    /\ event.op = "onMsg"
    /\ properties[1].kind = "Float"
    /\ properties[1].state_json_field = "s"
    /\ event.topic = properties[1].state_topic
    /\ event.payload = ObjectText
    /\ ~Debounced(now, last_seen[1])

\* ------------------------------------------- bookkeeping of one property

\* C12 Updated together: in every step, for every property, _last_seen_value
\* and _last_seen are both refreshed (the value to the backing variable, the
\* time to millis()) or both left as they were.
C12_UpdatedTogether ==
    [][\A i \in Indices :
           \/ /\ last_seen_value'[i] = last_seen_value[i]
              /\ last_seen'[i] = last_seen[i]
           \/ /\ last_seen_value'[i] = var'[i]
              /\ last_seen'[i] = now]_vars

\* C12 witness: a change scan refreshed a property whose value and time both
\* had to change
C12_Witness ==
    /\ event.op = "scan"
    /\ now = 600
    /\ \E i \in event.applied :
           last_seen[i] = now /\ last_seen_value[i] = var[i]

\* -------------------------------------------------------------- setup()

\* Property::setStatePayload and Property::setCommandPayload returning like the
\* overrides of BoolProperty
OverridesPayloadSetters_All(p) == TRUE

\* whether the virtual call of setStatePayload or setCommandPayload on p runs
\* an override: only BoolProperty has them, the other classes run Property's
OverridesPayloadSetters(p) == p.kind = "Bool"

\* how many properties the sketches of ConfigSpec register
MaxConfigured == 1

\* the sketch before setup(): an empty registry
ConfigInit ==
    /\ properties = <<>>
    /\ var = <<>>
    /\ last_seen_value = <<>>
    /\ last_seen = <<>>
    /\ started = FALSE
    /\ now = 0
    /\ pc = "setup"
    /\ delivered = 0
    /\ published = <<>>
    /\ event = Event("boot", "", <<>>, {})
    /\ lastWrite = <<>>
    /\ pending = <<>>

\* the property the chained setters act on: the one the last add() returned
Chained == Len(properties)

\* Gateway::add(var) of a variable of class kind; other as in
\* InitialLastSeenValue
add(kind, other) ==
    /\ pc = "setup"
    /\ Len(properties) < MaxConfigured
    /\ properties' = Append(properties, Property(kind, nullptr, nullptr, nullptr))
    /\ var' = Append(var, ZeroValue(kind))
    /\ last_seen_value' = Append(last_seen_value, InitialLastSeenValue(kind, other))
    /\ last_seen' = Append(last_seen, 0)
    /\ lastWrite' = Append(lastWrite, NoWrite)
    /\ pending' = Append(pending, FALSE)
    /\ event' = Event("add", "", <<>>, {})
    /\ UNCHANGED <<started, now, pc, delivered, published>>

\* Property::setStateTopic, once per property in the sketches of this model
setStateTopic(topic) ==
    /\ pc = "setup"
    /\ Chained > 0
    /\ properties[Chained].state_topic = nullptr
    /\ properties' = [properties EXCEPT ![Chained].state_topic = topic]
    /\ event' = Event("setStateTopic", topic, <<>>, {})
    /\ UNCHANGED <<var, last_seen_value, last_seen, started, now, pc, delivered,
                   published, lastWrite, pending>>

\* Property::setCommandTopic, once per property in the sketches of this model
setCommandTopic(topic) ==
    /\ pc = "setup"
    /\ Chained > 0
    /\ properties[Chained].command_topic = nullptr
    /\ properties' = [properties EXCEPT ![Chained].command_topic = topic]
    /\ event' = Event("setCommandTopic", topic, <<>>, {})
    /\ UNCHANGED <<var, last_seen_value, last_seen, started, now, pc, delivered,
                   published, lastWrite, pending>>

\* the virtual call setStatePayload(on, off) through the reference the chain
\* holds: the override of BoolProperty stores the literals and returns,
\* Property's prints an error and loops forever
PropertySetStatePayload(on, off) ==
    /\ pc = "setup"
    /\ Chained > 0
    /\ properties[Chained].state_on # on
    /\ IF OverridesPayloadSetters(properties[Chained])
       THEN /\ properties' =
                   [properties EXCEPT ![Chained] = setStatePayload(@, on, off)]
            /\ pc' = pc
       ELSE /\ pc' = "halted"
            /\ UNCHANGED properties
    /\ event' = Event("setStatePayload", "", on, {})
    /\ UNCHANGED <<var, last_seen_value, last_seen, started, now, delivered,
                   published, lastWrite, pending>>

\* the virtual call setCommandPayload(on, off), likewise
PropertySetCommandPayload(on, off) ==
    /\ pc = "setup"
    /\ Chained > 0
    /\ properties[Chained].cmd_on # on
    /\ IF OverridesPayloadSetters(properties[Chained])
       THEN /\ properties' =
                   [properties EXCEPT ![Chained] = setCommandPayload(@, on, off)]
            /\ pc' = pc
       ELSE /\ pc' = "halted"
            /\ UNCHANGED properties
    /\ event' = Event("setCommandPayload", "", on, {})
    /\ UNCHANGED <<var, last_seen_value, last_seen, started, now, delivered,
                   published, lastWrite, pending>>

\* setup() returns and the core starts calling loop()
SetupReturns ==
    /\ pc = "setup"
    /\ pc' = "idle"
    /\ event' = Event("setup", "", <<>>, {})
    /\ UNCHANGED <<properties, var, last_seen_value, last_seen, started, now,
                   delivered, published, lastWrite, pending>>

ConfigNext ==
    \/ \E kind \in {"Bool", "Int", "Float", "String"} : \E other \in BOOLEAN :
           add(kind, other)
    \/ setStateTopic("relay")
    \/ setCommandTopic("relay/command")
    \/ PropertySetStatePayload(UpperOnText, UpperOffText)
    \/ PropertySetCommandPayload(UpperOnText, UpperOffText)
    \/ SetupReturns
    \/ \E connection \in {"CONNECTED", "DISCONNECTED"} : \E mdns \in BOOLEAN :
           LoopBegin(connection, mdns)
    \/ \E topic \in InboundTopics : \E payload \in {OnText, UpperOffText} :
           \E null \in {"mismatch", "crash"} : OnMsg(topic, payload, null)
    \/ LoopScan

\* setup() and then the calls of loop(), at the clock reading of the boot
ConfigSpec == ConfigInit /\ [][ConfigNext]_vars

\* C13 Fatal configuration error: setStatePayload or setCommandPayload on an
\* Int, Float or String property stops the sketch inside setup(), after which
\* no step is ever taken (no tick, no publish, no routing); on a Bool property
\* the call stores the literals and setup() goes on.
C13_FatalConfiguration ==
    [][/\ event'.op \in {"setStatePayload", "setCommandPayload"}
           => IF properties[Chained].kind = "Bool"
              THEN /\ pc' = "setup"
                   /\ properties'[Chained].kind = "Bool"
                   /\ event'.op = "setStatePayload"
                          => properties'[Chained].state_on = event'.payload
                   /\ event'.op = "setCommandPayload"
                          => properties'[Chained].cmd_on = event'.payload
              ELSE /\ pc' = "halted"
                   /\ ~started'
                   /\ published' = <<>>
       /\ pc # "halted"]_vars

\* C13 witness: setStatePayload was called on a Float property that already has
\* its topics, and the sketch stopped
C13_Witness ==
    /\ event.op = "setStatePayload"
    /\ properties[Chained].kind = "Float"
    /\ properties[Chained].state_topic # nullptr
    /\ properties[Chained].command_topic # nullptr
    /\ pc = "halted"

\* ------------------------------------------------------------ lifecycle

\* what C14 says of one step
LifecycleStep ==
    /\ \A mdns \in BOOLEAN :
           (~started /\ LoopBegin("DISCONNECTED", mdns))
           => /\ UNCHANGED <<properties, var, last_seen_value, last_seen,
                             started, now, pc, lastWrite, pending>>
              /\ published' = <<>>
    /\ (~started /\ LoopBegin("CONNECTED", TRUE))
           => (started' /\ event'.op = "start")
    /\ (event'.op = "start") <=> (~started /\ started')
    /\ started => started'
    /\ ~started => event'.op \notin {"onMsg", "crash", "scan"}
    /\ \A connection \in {"CONNECTED", "DISCONNECTED"} : \A mdns \in BOOLEAN :
           (started /\ LoopBegin(connection, mdns))
           => (event'.op = "loop" /\ pc' = "transport")

\* C14 Gateway lifecycle: the gateway starts not started; a call of loop()
\* that finds no connection before the bring-up changes nothing and runs
\* neither the transport nor the scan; the bring-up is done by the first call
\* that finds the connection and by no other; once started the gateway stays
\* started and every call goes on to the transport, connection or not.
C14_Lifecycle == ~started /\ [][LifecycleStep]_vars

\* C14 witness: a started gateway entered loop() once more, later
C14_Witness == started /\ event.op = "loop" /\ now = 600 /\ pc = "transport"

\* C16 Fail-stop on bring-up failure: when MDNS.begin fails in the bring-up the
\* sketch stops there: the gateway is not started, nothing was published, and
\* no step is ever taken again (no retry, no scan, no routing).
C16_FailStop ==
    [][/\ (~started /\ LoopBegin("CONNECTED", FALSE))
              => /\ event'.op = "halt"
                 /\ pc' = "halted"
                 /\ ~started'
                 /\ published' = <<>>
       /\ event.op # "halt"]_vars

\* C16 witness: the bring-up failed and the sketch stopped
C16_Witness == event.op = "halt" /\ pc = "halted" /\ ~started /\ now = 100

\* ----------------------------------------------- parse failures in onMsg

\* the properties that ask onMsg for the parsed document: on the topic, outside
\* their debounce window, with a structured field
WantDocument(topic) ==
    {i \in Indices :
        /\ properties[i].state_topic = topic
        /\ ~(Elapsed(now, last_seen[i]) < IGNORE_STATES_FOR)
        /\ properties[i].state_json_field # nullptr}

\* the properties that take the raw payload
WantPayload(topic) ==
    {i \in Indices :
        /\ properties[i].state_topic = topic
        /\ ~(Elapsed(now, last_seen[i]) < IGNORE_STATES_FOR)
        /\ properties[i].state_json_field = nullptr}

\* C15 Parse failure: one call of onMsg parses the payload once if a property
\* asks for the document and not at all otherwise; the properties that ask
\* are handed members of that one document, or are all left untouched when the
\* parse fails, and the plain properties on the topic, before or after them in
\* the registry, are decoded from the raw payload all the same.
C15_ParseFailure ==
    [][MessageStep
       => LET topic == event'.topic
              payload == event'.payload
              r == onMsg([i \in Indices |-> StateOf(i)], topic, payload, now,
                         "mismatch")
          IN  /\ r.parses = IF WantDocument(topic) = {} THEN 0 ELSE 1
              /\ \A i \in WantDocument(topic) :
                     IF deserializeJson(payload).error THEN Unchanged(i)
                     ELSE StateAfter(i)
                              = updateFromMQTT_JSON(properties[i], StateOf(i),
                                                    MemberFor(i, payload), now)
              /\ \A i \in WantPayload(topic) :
                     StateAfter(i)
                         = updateFromMQTT(properties[i], StateOf(i), payload, now)]_vars

\* C15 witness: a payload that is no document reached a structured property and
\* the plain property registered after it, both outside their windows; the
\* plain one took it
C15_Witness ==
    /\ properties = SharedIntRegistry
    /\ event.op = "onMsg"
    /\ event.topic = "count"
    /\ event.payload = PrefixText
    /\ event.applied = {2}
    /\ var[2] = 42
    /\ ~Debounced(now, last_seen[1])

\* ---------------------------------------------------- Int, plain payload

\* what the claim expects of the payloads of this model: "42abc" is 42 and the
\* others, none of which starts with a digit, are 0
ExpectedInt(payload) == IF payload = PrefixText THEN 42 ELSE 0

\* C17 Int plain decode: a payload routed to a plain Int property outside its
\* window always sets the backing variable to the value of its leading decimal
\* digits (0 when there are none) and refreshes _last_seen_value and
\* _last_seen, and the call goes on to route the message to the other
\* properties.
C17_IntBestEffort ==
    [][\A i \in Indices :
           (/\ MessageStep
            /\ properties[i].kind = "Int"
            /\ properties[i].state_json_field = nullptr
            /\ event'.topic = properties[i].state_topic
            /\ ~(Elapsed(now, last_seen[i]) < IGNORE_STATES_FOR))
           => /\ var'[i] = ExpectedInt(event'.payload)
              /\ last_seen_value'[i] = var'[i]
              /\ last_seen'[i] = now
              /\ pc' = "transport"
              /\ RoutedIndependently]_vars

\* C17 witness: an object text reached a plain Int property, which took 0, and
\* the structured property registered after it, which took its member
C17_Witness ==
    /\ properties = SharedRegistry
    /\ event.op = "onMsg"
    /\ event.payload = ObjectText
    /\ event.applied = {1, 2}
    /\ var = <<0, TRUE>>
    /\ last_seen = <<now, now>>

\* ------------------------------------------------------ skipped messages

\* C18 Skipped messages: a message routed to a property inside its debounce
\* window leaves the backing variable, _last_seen_value and _last_seen as they
\* were; _last_seen moves only when the scan finds the property changed or a
\* message reaches it outside the window, so a skipped message never extends
\* the window, and a returning call of onMsg made IGNORE_STATES_FOR or more
\* after _last_seen hands the message to the property.
C18_SkippedChangesNothing ==
    [][\A i \in Indices :
           /\ (/\ MessageStep
               /\ event'.topic = properties[i].state_topic
               /\ Elapsed(now, last_seen[i]) < IGNORE_STATES_FOR)
              => Unchanged(i)
           /\ last_seen'[i] # last_seen[i]
              => \/ ScanStep /\ hasChanged(properties[i], StateOf(i))
                 \/ /\ MessageStep
                    /\ event'.topic = properties[i].state_topic
                    /\ Elapsed(now, last_seen[i]) >= IGNORE_STATES_FOR
           /\ (/\ MessageStep
               /\ event'.op = "onMsg"
               /\ event'.topic = properties[i].state_topic
               /\ Elapsed(now, last_seen[i]) >= IGNORE_STATES_FOR)
              => StateAfter(i)
                     = DecodeRule(properties[i], StateOf(i), event'.payload, now)]_vars

\* C18 witness: the relay, true and synchronised at 1, was sent "off" at 100:
\* the message was skipped and _last_seen is still 1
C18_Witness ==
    /\ properties = RelayRegistry
    /\ event.op = "onMsg"
    /\ event.topic = "relay"
    /\ event.payload = OffText
    /\ event.applied = {}
    /\ now = 100
    /\ last_seen = <<1>>
    /\ var = <<TRUE>>

\* ------------------------------------------- routing and scan, apart

\* C19 Disjoint effects: a call of onMsg publishes nothing and leaves every
\* property whose state topic is not the topic of the message as it was; the
\* change scan writes no backing variable and leaves _last_seen_value and
\* _last_seen of the properties it did not find changed as they were.
C19_DisjointEffects ==
    [][/\ MessageStep
           => /\ published' = published
              /\ \A i \in Indices :
                     event'.topic # properties[i].state_topic => Unchanged(i)
       /\ ScanStep
           => /\ var' = var
              /\ \A i \in Indices :
                     ~hasChanged(properties[i], StateOf(i))
                     => /\ last_seen_value'[i] = last_seen_value[i]
                        /\ last_seen'[i] = last_seen[i]
                        /\ PublishedFor(i)' = {}]_vars

\* C19 witness: a scan at 600 refreshed and published one property of the
\* registry and left the other, last synchronised earlier, alone
C19_Witness ==
    /\ Len(properties) = 2
    /\ event.op = "scan"
    /\ now = 600
    /\ \E i, j \in Indices :
           /\ event.applied = {i}
           /\ PublishedFor(i) # {}
           /\ last_seen[i] = now
           /\ j # i
           /\ last_seen[j] < now
           /\ PublishedFor(j) = {}

\* ---------------------------------------------------- the clock wraps

\* the clock readings at which the relay was last synchronised
SyncReadings == {0, 1, 100, ClockModulus - 100, ClockModulus - 1}

\* the time that really went by since then
RealElapsed ==
    {0, 1, IGNORE_STATES_FOR - 1, IGNORE_STATES_FOR, IGNORE_STATES_FOR + 100,
     ClockModulus - IGNORE_STATES_FOR, ClockModulus - 1, ClockModulus,
     ClockModulus + 1, ClockModulus + IGNORE_STATES_FOR - 1,
     ClockModulus + IGNORE_STATES_FOR, ClockModulus + IGNORE_STATES_FOR + 100}

\* lastWrite of a property synchronised elapsed ago
SinceSync(elapsed) == [by |-> "sync", at |-> elapsed]

\* a started gateway inside the transport's loop(), its relay last synchronised
\* at the reading last_seen, the clock having gone on (and around) since
ClockInit ==
    /\ properties = RelayRegistry
    /\ var \in {<<FALSE>>, <<TRUE>>}
    /\ last_seen_value = var
    /\ \E reading \in SyncReadings : \E elapsed \in RealElapsed :
           /\ last_seen = <<reading>>
           /\ now = (reading + elapsed) % ClockModulus
           /\ lastWrite = <<SinceSync(elapsed)>>
    /\ started = TRUE
    /\ pc = "transport"
    /\ delivered = 0
    /\ published = <<>>
    /\ event = Event("loop", "", <<>>, {})
    /\ pending = <<FALSE>>

ClockNext ==
    \/ \E payload \in {OnText, OffText} : OnMsg("relay", payload, "mismatch")
    \/ LoopScan

ClockSpec == ClockInit /\ [][ClockNext]_vars

\* C20 Clock wraparound, as claimed: a state literal routed to the relay is
\* skipped exactly when less than IGNORE_STATES_FOR really went by since its
\* last synchronisation, whatever the clock reads; and a relay whose _last_seen
\* is 0 skips exactly while the clock reads less than IGNORE_STATES_FOR.
C20_SkipsExactlyInsideWindow ==
    [][\A i \in Indices :
           (MessageStep /\ lastWrite[i].by = "sync")
           => /\ Unchanged(i) <=> lastWrite[i].at < IGNORE_STATES_FOR
              /\ last_seen[i] = 0
                     => (Unchanged(i) <=> now < IGNORE_STATES_FOR)]_vars

\* C20 Clock wraparound, amended: the same when less than one turn of the clock
\* went by since the last synchronisation.
C20_SkipsExactlyWithinOneTurn ==
    [][\A i \in Indices :
           (MessageStep /\ lastWrite[i].by = "sync")
           => /\ lastWrite[i].at < ClockModulus
                     => (Unchanged(i) <=> lastWrite[i].at < IGNORE_STATES_FOR)
              /\ last_seen[i] = 0
                     => (Unchanged(i) <=> now < IGNORE_STATES_FOR)]_vars

\* C20 witness: the clock has wrapped below _last_seen, less than
\* IGNORE_STATES_FOR after the synchronisation, and the message was skipped
C20_Witness ==
    /\ event.op = "onMsg"
    /\ event.applied = {}
    /\ lastWrite[1] = SinceSync(IGNORE_STATES_FOR - 1)
    /\ now < last_seen[1]

====
